---- MODULE Spec2Model ----
(***************************************************************************)
(* defcon Component (Lib/defcon/objects/component.py): a reference to      *)
(* another glyph with a transformation and an identifier that is unique    *)
(* within the identifier set of the glyph the component belongs to.        *)
(*                                                                         *)
(* Every public operation of Component is one action.  The outputs of the  *)
(* most recent call (exception raised, value returned, notifications       *)
(* posted, addComponent calls received by the pen, warnings) are kept in   *)
(* variables so that properties can speak about them.                      *)
(***************************************************************************)
EXTENDS Integers, Sequences, FiniteSets, TLC

\* ------------------------------------------------------------------ bounds
MaxOffset == 1

\* ---------------------------------------------------------------- universe
None == "None"
Comps == {"c1", "c2"}
\* g1: has a font and an identifier set; g2: an identifier set but no font;
\* g3: a font, but its identifiers attribute is None.
Glyphs == {"g1", "g2", "g3"}
Ids == {"A", "B", "C"}
GlyphNames == {"a"}
Offsets == 0..MaxOffset
Deltas == {-1, 0, 1}
LinearParts == {<<1, 0, 0, 1>>, <<2, 1, -1, 3>>}
TransformationValues ==
    {<<l[1], l[2], l[3], l[4], x, y>> : l \in LinearParts, x \in Offsets, y \in Offsets}
VisitorKinds == {"identifier", "legacy", "broken"}
Omitted == "omitted"

VARIABLES
    parent,            \* c -> glyph the component belongs to, or None
    glyphIdentifiers,  \* g -> the glyph's identifier set (where it has one)
    _baseGlyph,        \* c -> self._baseGlyph
    _transformation,   \* c -> self._transformation
    _identifier,       \* c -> self._identifier
    _dirty,            \* c -> self._dirty
    call,              \* the most recent call: [op, c, arg]
    raised,            \* exception the most recent call raised, or None
    result,            \* value the most recent call returned
    posted,            \* notifications the most recent call posted, in order
    penCalls,          \* addComponent calls the pen received in that call
    warnings,          \* warnings emitted by that call
    hist               \* where recorded: the call before the most recent one

state == <<parent, glyphIdentifiers, _baseGlyph, _transformation, _identifier, _dirty>>
vars == <<parent, glyphIdentifiers, _baseGlyph, _transformation, _identifier, _dirty,
          call, raised, result, posted, penCalls, warnings, hist>>

\* ------------------------------------------------- the objects around it
\* Glyph.getParent(): the font of a glyph, or None.
GlyphFont == [g \in Glyphs |-> IF g = "g2" THEN None ELSE "font"]

\* Whether Glyph.identifiers is a set (TRUE) or None (FALSE).
GlyphHasIdentifiers == [g \in Glyphs |-> g # "g3"]

\* BaseObject.getParent()
getParent(c) == parent[c]

\* (a scope resolved once and for all: the first glyph, whatever the parent
\* is now)
ParentIdentifiersCached(c) ==
    IF getParent(c) # None /\ GlyphHasIdentifiers[getParent(c)] THEN "g1" ELSE None

\* parent.identifiers: the glyph whose live set it is, or None
ParentIdentifiers(c) ==
    IF getParent(c) # None /\ GlyphHasIdentifiers[getParent(c)] THEN getParent(c) ELSE None

\* A notification as an observer receives it: the channel, the data, and what
\* the observer reads from the component at the moment of delivery.
Notification(name, oldValue, newValue, seen) ==
    [name |-> name, oldValue |-> oldValue, newValue |-> newValue, seen |-> seen]

\* BaseObject.postNotification
postNotification(log, n) == Append(log, n)

\* Component.changeNotificationName
changeNotificationName == "Component.Changed"

\* What an observer reads when a notification of a component is delivered in
\* a state where its attribute is attr, the resolved set ids and the flag d.
Seen(attr, ids, d) == [value |-> attr, identifiers |-> ids, dirty |-> d]

\* self.dirty = True: once the flag is stored, the generic notification is
\* posted after the specific one.
SetDirtyPosts(log, ids) ==
    postNotification(log, Notification(changeNotificationName, None, None, Seen(None, ids, TRUE)))

NoCall == [op |-> "init", c |-> None, arg |-> None]

\* The identifiers as they are now: those of the components and of the glyphs.
Registry == [held |-> _identifier, sets |-> glyphIdentifiers]

\* Where a history is recorded, hist holds the call before the most recent one
\* and what it raised, the identifiers as they were before the most recent
\* call (was) and as they were before the call before it (before).
NoHistory == [on |-> FALSE]

EmptyHistory ==
    [on |-> TRUE, call |-> NoCall, raised |-> None,
     was |-> [held |-> [c \in Comps |-> None], sets |-> [g \in Glyphs |-> {}]],
     before |-> [held |-> [c \in Comps |-> None], sets |-> [g \in Glyphs |-> {}]]]

Remember ==
    hist' = IF hist.on
            THEN [on |-> TRUE, call |-> call, raised |-> raised,
                  was |-> Registry, before |-> hist.was]
            ELSE hist

Construction ==

    /\ parent = [c \in Comps |-> None]
    /\ glyphIdentifiers = [g \in Glyphs |-> {}]
    /\ _baseGlyph = [c \in Comps |-> None]
    /\ _transformation = [c \in Comps |-> <<1, 0, 0, 1, 0, 0>>]
    /\ _identifier = [c \in Comps |-> None]
    /\ _dirty = [c \in Comps |-> FALSE]
    /\ call = NoCall
    /\ raised = None
    /\ result = None
    /\ posted = <<>>
    /\ penCalls = <<>>
    /\ warnings = 0

Init == Construction /\ hist = NoHistory

\* A call that returns (or raises) without touching anything.
Returns(exc, value) ==
    /\ raised' = exc
    /\ result' = value
    /\ posted' = <<>>
    /\ penCalls' = <<>>
    /\ warnings' = 0
    /\ UNCHANGED state

\* ----------------------------------------------------------- identifiers
\* (an accessor that, finding no set of its own, answers with every
\* identifier registered anywhere)
_get_identifiers_anywhere(c) ==
    IF ParentIdentifiers(c) # None THEN glyphIdentifiers[ParentIdentifiers(c)]
    ELSE UNION {glyphIdentifiers[g] : g \in Glyphs}

\* Component._get_identifiers: the set the component checks against
_get_identifiers(c) ==
    IF ParentIdentifiers(c) # None THEN glyphIdentifiers[ParentIdentifiers(c)] ELSE {}

\* (a setter that never takes its early return)
UnchangedNever(value, oldValue) == FALSE

\* the early return of the setters: value == oldValue
Unchanged(value, oldValue) == value = oldValue

\* (the assertion compiled away)
AssertDisabled(value, identifiers) == TRUE

\* assert value not in identifiers
AssertNotDuplicate(value, identifiers) == value \notin identifiers

\* (the old identifier is never freed)
FreeOldKeeps(oldIdentifier, identifiers) == identifiers

\* free the old identifier
FreeOld(oldIdentifier, identifiers) ==
    IF oldIdentifier \in identifiers THEN identifiers \ {oldIdentifier} ELSE identifiers

\* (the new identifier is never added)
AddNewForgets(value, identifiers) == identifiers

\* store: identifiers.add(value) unless value is None
AddNew(value, identifiers) ==
    IF value # None THEN identifiers \cup {value} ELSE identifiers

\* (an identifier setter that posts its notification before it touches the
\* set and the attribute)
SetIdentifierEffectPostsFirst(c, value) ==
    LET oldIdentifier == _identifier[c]
        identifiers   == _get_identifiers(c)
        owner         == ParentIdentifiers(c)
        after         == AddNew(value, FreeOld(oldIdentifier, identifiers))
    IN  IF Unchanged(value, oldIdentifier)
        THEN Returns(None, None)
        ELSE IF ~AssertNotDuplicate(value, identifiers)
        THEN Returns("AssertionError", None)
        ELSE /\ glyphIdentifiers' =
                    IF owner # None THEN [glyphIdentifiers EXCEPT ![owner] = after]
                    ELSE glyphIdentifiers
             /\ _identifier' = [_identifier EXCEPT ![c] = value]
             /\ _dirty' = [_dirty EXCEPT ![c] = TRUE]
             /\ posted' = SetDirtyPosts(
                    postNotification(<<>>,
                        Notification("Component.IdentifierChanged", oldIdentifier, value,
                            Seen(oldIdentifier, identifiers, _dirty[c]))),
                    IF owner # None THEN after ELSE {})
             /\ raised' = None
             /\ result' = None
             /\ penCalls' = <<>>
             /\ warnings' = 0
             /\ UNCHANGED <<parent, _baseGlyph, _transformation>>

\* Component._set_identifier, without the bookkeeping of which call it was
SetIdentifierEffect(c, value) ==
    LET oldIdentifier == _identifier[c]
        identifiers   == _get_identifiers(c)
        owner         == ParentIdentifiers(c)
        after         == AddNew(value, FreeOld(oldIdentifier, identifiers))
    IN  IF Unchanged(value, oldIdentifier)
        THEN Returns(None, None)
        ELSE IF ~AssertNotDuplicate(value, identifiers)
        THEN Returns("AssertionError", None)
        ELSE /\ glyphIdentifiers' =
                    IF owner # None THEN [glyphIdentifiers EXCEPT ![owner] = after]
                    ELSE glyphIdentifiers
             /\ _identifier' = [_identifier EXCEPT ![c] = value]
             /\ _dirty' = [_dirty EXCEPT ![c] = TRUE]
             /\ posted' = SetDirtyPosts(
                    postNotification(<<>>,
                        Notification("Component.IdentifierChanged", oldIdentifier, value,
                            Seen(value, IF owner # None THEN after ELSE {}, _dirty[c]))),
                    IF owner # None THEN after ELSE {})
             /\ raised' = None
             /\ result' = None
             /\ penCalls' = <<>>
             /\ warnings' = 0
             /\ UNCHANGED <<parent, _baseGlyph, _transformation>>

\* component.identifier = value
_set_identifier(c, value) ==
    /\ call' = [op |-> "setIdentifier", c |-> c, arg |-> value]
    /\ Remember
    /\ SetIdentifierEffect(c, value)

\* Component.generateIdentifier.  The names bound at module level are those of
\* the import statements and of the two definitions of the module; a call of
\* any other global name raises NameError before its arguments are evaluated.
ModuleGlobals == {"weakref", "warn", "BaseObject", "Component", "_testIdentifier"}

\* makeRandomIdentifier(existing): some identifier that is not in existing
makeRandomIdentifier(existing) == Ids \ existing

generateIdentifier(c) ==
    /\ call' = [op |-> "generateIdentifier", c |-> c, arg |-> None]
    /\ Remember
    /\ IF "makeRandomIdentifier" \notin ModuleGlobals
       THEN Returns("NameError", None)
       ELSE \E fresh \in makeRandomIdentifier(_get_identifiers(c)) :
                SetIdentifierEffect(c, fresh)

\* ------------------------------------------ base glyph and transformation
\* (a base glyph setter that stores and marks dirty but forgets its own
\* notification)
_set_baseGlyph_unposted(c, value) ==
    /\ call' = [op |-> "setBaseGlyph", c |-> c, arg |-> value]
    /\ Remember
    /\ IF Unchanged(value, _baseGlyph[c])
       THEN Returns(None, None)
       ELSE /\ _baseGlyph' = [_baseGlyph EXCEPT ![c] = value]
            /\ _dirty' = [_dirty EXCEPT ![c] = TRUE]
            /\ posted' = SetDirtyPosts(<<>>, _get_identifiers(c))
            /\ raised' = None
            /\ result' = None
            /\ penCalls' = <<>>
            /\ warnings' = 0
            /\ UNCHANGED <<parent, glyphIdentifiers, _transformation, _identifier>>

\* component.baseGlyph = value
_set_baseGlyph(c, value) ==
    LET oldValue == _baseGlyph[c]
    IN  /\ call' = [op |-> "setBaseGlyph", c |-> c, arg |-> value]
        /\ Remember
        /\ IF Unchanged(value, oldValue)
           THEN Returns(None, None)
           ELSE /\ _baseGlyph' = [_baseGlyph EXCEPT ![c] = value]
                /\ _dirty' = [_dirty EXCEPT ![c] = TRUE]
                /\ posted' = SetDirtyPosts(
                       postNotification(<<>>,
                           Notification("Component.BaseGlyphChanged", oldValue, value,
                               Seen(value, _get_identifiers(c), _dirty[c]))),
                       _get_identifiers(c))
                /\ raised' = None
                /\ result' = None
                /\ penCalls' = <<>>
                /\ warnings' = 0
                /\ UNCHANGED <<parent, glyphIdentifiers, _transformation, _identifier>>

\* Component._set_transformation, without the bookkeeping of which call it was
SetTransformationEffect(c, value) ==
    LET oldValue == _transformation[c]
    IN  IF Unchanged(value, oldValue)
        THEN Returns(None, None)
        ELSE /\ _transformation' = [_transformation EXCEPT ![c] = value]
             /\ _dirty' = [_dirty EXCEPT ![c] = TRUE]
             /\ posted' = SetDirtyPosts(
                    postNotification(<<>>,
                        Notification("Component.TransformationChanged", oldValue, value,
                            Seen(value, _get_identifiers(c), _dirty[c]))),
                    _get_identifiers(c))
             /\ raised' = None
             /\ result' = None
             /\ penCalls' = <<>>
             /\ warnings' = 0
             /\ UNCHANGED <<parent, glyphIdentifiers, _baseGlyph, _identifier>>

\* component.transformation = value
_set_transformation(c, value) ==
    /\ call' = [op |-> "setTransformation", c |-> c, arg |-> value]
    /\ Remember
    /\ SetTransformationEffect(c, value)

\* (a move that forgets the vertical offset)
MovedHorizontally(t, x, y) == <<t[1], t[2], t[3], t[4], t[5] + x, t[6]>>

\* the transformation move((x, y)) assigns
Moved(t, x, y) == <<t[1], t[2], t[3], t[4], t[5] + x, t[6] + y>>

\* (a move with a code path of its own: it stores the transformation and
\* tells nobody)
moveDirect(c, x, y) ==
    /\ Moved(_transformation[c], x, y)[5] \in Offsets
    /\ Moved(_transformation[c], x, y)[6] \in Offsets
    /\ call' = [op |-> "move", c |-> c, arg |-> <<x, y>>]
    /\ Remember
    /\ _transformation' = [_transformation EXCEPT ![c] = Moved(_transformation[c], x, y)]
    /\ raised' = None /\ result' = None /\ posted' = <<>>
    /\ penCalls' = <<>> /\ warnings' = 0
    /\ UNCHANGED <<parent, glyphIdentifiers, _baseGlyph, _identifier, _dirty>>

\* Component.move((x, y)); the offsets are kept within Offsets
move(c, x, y) ==
    /\ Moved(_transformation[c], x, y)[5] \in Offsets
    /\ Moved(_transformation[c], x, y)[6] \in Offsets
    /\ call' = [op |-> "move", c |-> c, arg |-> <<x, y>>]
    /\ Remember
    /\ SetTransformationEffect(c, Moved(_transformation[c], x, y))

\* ------------------------------------------------------------ pen methods
\* How a pen answers addComponent: a pen of kind "identifier" takes the
\* identifier keyword, a "legacy" pen has no such parameter (the call raises
\* TypeError before the pen sees it), a "broken" pen raises TypeError itself.
PenRaises(kind, withIdentifier) ==
    \/ kind = "broken"
    \/ kind = "legacy" /\ withIdentifier

PenReceives(kind, withIdentifier) == ~(kind = "legacy" /\ withIdentifier)

AddComponentCall(c, ident) ==
    [baseGlyph |-> _baseGlyph[c], transformation |-> _transformation[c], identifier |-> ident]

\* (drawPoints without the fallback: the TypeError of the first call escapes)
drawPointsNoRetry(c, kind) ==
    [calls |-> IF PenReceives(kind, TRUE)
               THEN <<AddComponentCall(c, _identifier[c])>> ELSE <<>>,
     warnings |-> 0,
     raised |-> IF PenRaises(kind, TRUE) THEN "TypeError" ELSE None]

\* Component.drawPoints: [calls, warnings, raised]
drawPoints(c, kind) ==
    LET first  == IF PenReceives(kind, TRUE)
                  THEN <<AddComponentCall(c, _identifier[c])>> ELSE <<>>
        second == IF PenReceives(kind, FALSE)
                  THEN <<AddComponentCall(c, Omitted)>> ELSE <<>>
    IN  IF ~PenRaises(kind, TRUE)
        THEN [calls |-> first, warnings |-> 0, raised |-> None]
        ELSE IF ~PenRaises(kind, FALSE)
        THEN [calls |-> first \o second, warnings |-> 1, raised |-> None]
        ELSE [calls |-> first \o second, warnings |-> 0, raised |-> "TypeError"]

\* Component.draw: drawPoints on the point pen wrapped around pen
draw(c, kind) == drawPoints(c, kind)

\* (a pen run that marks the components as changed)
DrivesDirty(d, value) ==
    /\ raised' = d.raised
    /\ result' = IF d.raised = None THEN value ELSE None
    /\ posted' = <<>>
    /\ penCalls' = d.calls
    /\ warnings' = d.warnings
    /\ _dirty' = [c \in Comps |-> TRUE]
    /\ UNCHANGED <<parent, glyphIdentifiers, _baseGlyph, _transformation, _identifier>>

\* a call that drives a pen and returns value unless the pen raised
Drives(d, value) ==
    /\ raised' = d.raised
    /\ result' = IF d.raised = None THEN value ELSE None
    /\ posted' = <<>>
    /\ penCalls' = d.calls
    /\ warnings' = d.warnings
    /\ UNCHANGED state

DrawPoints(c, kind) ==
    /\ call' = [op |-> "drawPoints", c |-> c, arg |-> kind]
    /\ Remember
    /\ Drives(drawPoints(c, kind), None)

Draw(c, kind) ==
    /\ call' = [op |-> "draw", c |-> c, arg |-> kind]
    /\ Remember
    /\ Drives(draw(c, kind), None)

\* --------------------------------------------------------------- geometry
\* the font as _get_bounds and _get_controlPointBounds resolve it
BoundsFont(c) == GlyphFont[getParent(c)]

\* the font as pointInside resolves it
PointInsideFont(c) == getParent(c)

BoundsValues == {None, "rect"}
PointInsideValues == {"True", "False"}

\* (bounds that drives the pen without looking for glyph and font)
_get_bounds_unguarded(c, kind, penBounds) ==
    /\ call' = [op |-> "bounds", c |-> c, arg |-> kind]
    /\ Remember
    /\ Drives(draw(c, kind), penBounds)

\* component.bounds
_get_bounds(c, kind, penBounds) ==
    /\ call' = [op |-> "bounds", c |-> c, arg |-> kind]
    /\ Remember
    /\ IF getParent(c) = None THEN Returns(None, None)
       ELSE IF BoundsFont(c) = None THEN Returns(None, None)
       ELSE Drives(draw(c, kind), penBounds)

\* component.controlPointBounds
_get_controlPointBounds(c, kind, penBounds) ==
    /\ call' = [op |-> "controlPointBounds", c |-> c, arg |-> kind]
    /\ Remember
    /\ IF getParent(c) = None THEN Returns(None, None)
       ELSE IF BoundsFont(c) = None THEN Returns(None, None)
       ELSE Drives(draw(c, kind), penBounds)

\* component.pointInside((x, y), evenOdd)
pointInside(c, kind, penResult) ==
    /\ call' = [op |-> "pointInside", c |-> c, arg |-> kind]
    /\ Remember
    /\ IF getParent(c) = None THEN Returns(None, "False")
       ELSE IF PointInsideFont(c) = None THEN Returns(None, "False")
       ELSE Drives(draw(c, kind), penResult)

\* ------------------------------------------- operations of the environment
\* glyph.appendComponent(component): the component's parent becomes g
appendComponent(c, g) ==
    /\ parent[c] # g
    /\ call' = [op |-> "appendComponent", c |-> c, arg |-> g]
    /\ Remember
    /\ parent' = [parent EXCEPT ![c] = g]
    /\ raised' = None /\ result' = None /\ posted' = <<>>
    /\ penCalls' = <<>> /\ warnings' = 0
    /\ UNCHANGED <<glyphIdentifiers, _baseGlyph, _transformation, _identifier, _dirty>>

\* glyph.removeComponent(component): the component has no parent any more
removeComponent(c) ==
    /\ parent[c] # None
    /\ call' = [op |-> "removeComponent", c |-> c, arg |-> None]
    /\ Remember
    /\ parent' = [parent EXCEPT ![c] = None]
    /\ raised' = None /\ result' = None /\ posted' = <<>>
    /\ penCalls' = <<>> /\ warnings' = 0
    /\ UNCHANGED <<glyphIdentifiers, _baseGlyph, _transformation, _identifier, _dirty>>

\* component.dirty = False, by whoever saved the document
clearDirty(c) ==
    /\ _dirty[c]
    /\ call' = [op |-> "clearDirty", c |-> c, arg |-> None]
    /\ Remember
    /\ _dirty' = [_dirty EXCEPT ![c] = FALSE]
    /\ raised' = None /\ result' = None /\ posted' = <<>>
    /\ penCalls' = <<>> /\ warnings' = 0
    /\ UNCHANGED <<parent, glyphIdentifiers, _baseGlyph, _transformation, _identifier>>

\* ---------------------------------------------------------- specifications
\* The identifier registry: components are given identifiers, appended to
\* glyphs and removed from them.
Next ==
    \/ \E c \in Comps, value \in Ids \cup {None} : _set_identifier(c, value)
    \/ \E c \in Comps : generateIdentifier(c)
    \/ \E c \in Comps, g \in Glyphs : appendComponent(c, g)
    \/ \E c \in Comps : removeComponent(c)
    \/ \E c \in Comps : clearDirty(c)

Spec == Init /\ [][Next]_vars

\* The attributes: base glyph, transformation and identifier of component c1
\* are set while it is appended to and removed from glyph g1.
NextAttributes ==
    \/ \E value \in Ids \cup {None} : _set_identifier("c1", value)
    \/ \E value \in GlyphNames \cup {None} : _set_baseGlyph("c1", value)
    \/ \E value \in TransformationValues : _set_transformation("c1", value)
    \/ \E x \in Deltas, y \in Deltas : move("c1", x, y)
    \/ appendComponent("c1", "g1")
    \/ removeComponent("c1")
    \/ clearDirty("c1")

SpecAttributes == Init /\ [][NextAttributes]_vars

\* The pens: component c1 is drawn and measured, in every glyph, with every
\* kind of pen.
NextGeometry ==
    \/ \E kind \in VisitorKinds : DrawPoints("c1", kind)
    \/ \E kind \in VisitorKinds : Draw("c1", kind)
    \/ \E kind \in VisitorKinds, b \in BoundsValues : _get_bounds("c1", kind, b)
    \/ \E kind \in VisitorKinds, b \in BoundsValues : _get_controlPointBounds("c1", kind, b)
    \/ \E kind \in VisitorKinds, r \in PointInsideValues : pointInside("c1", kind, r)
    \/ \E value \in {"A", None} : _set_identifier("c1", value)
    \/ \E value \in GlyphNames \cup {None} : _set_baseGlyph("c1", value)
    \/ \E x \in {0, 1} : move("c1", x, 0)
    \/ \E g \in Glyphs : appendComponent("c1", g)
    \/ removeComponent("c1")
    \/ clearDirty("c1")

SpecGeometry == Init /\ [][NextGeometry]_vars

\* One glyph: every component belongs to glyph g1 from the start, none has an
\* identifier, and identifiers are all that is assigned.
InitOneGlyph ==
    /\ parent = [c \in Comps |-> "g1"]
    /\ \E others \in SUBSET Ids : glyphIdentifiers = [g \in Glyphs |-> IF g = "g1" THEN others ELSE {}]
    /\ _baseGlyph = [c \in Comps |-> None]
    /\ _transformation = [c \in Comps |-> <<1, 0, 0, 1, 0, 0>>]
    /\ _identifier = [c \in Comps |-> None]
    /\ _dirty = [c \in Comps |-> FALSE]
    /\ call = NoCall
    /\ raised = None
    /\ result = None
    /\ posted = <<>>
    /\ penCalls = <<>>
    /\ warnings = 0
    /\ hist = NoHistory

NextOneGlyph ==
    \/ \E c \in Comps, value \in Ids \cup {None} : _set_identifier(c, value)

SpecOneGlyph == InitOneGlyph /\ [][NextOneGlyph]_vars

\* The registry with a history of two calls.
InitHistory == Construction /\ hist = EmptyHistory

NextHistory ==
    \/ \E c \in Comps, value \in Ids \cup {None} : _set_identifier(c, value)
    \/ \E c \in Comps : appendComponent(c, "g1")
    \/ \E c \in Comps : removeComponent(c)

SpecHistory == InitHistory /\ [][NextHistory]_vars
\* ------------------------------------------------------------ properties
\* C1. Under SpecOneGlyph (all components in one glyph from the start, no
\* identifiers, identifiers assigned in any order, duplicates attempted): no
\* two distinct components of the glyph hold equal identifiers other than None.
C1_Uniqueness ==
    \A c \in Comps, d \in Comps :
        (c # d /\ parent[c] # None /\ parent[c] = parent[d] /\ _identifier[c] # None)
            => _identifier[c] # _identifier[d]

\* A duplicate was just refused while both components hold identifiers.
C1_Witness ==
    /\ call.op = "setIdentifier"
    /\ raised = "AssertionError"
    /\ \A c \in Comps : parent[c] = "g1" /\ _identifier[c] # None

\* C2. Assigning to a component an identifier other than None that differs
\* from its own and is in the identifier set of its glyph raises
\* AssertionError and changes nothing: not the identifier, not the set, not
\* the dirty flag, and nothing is posted.
C2_DuplicateFails ==
    [][\A c \in Comps, value \in Ids :
          ( /\ call'.op = "setIdentifier" /\ call'.c = c /\ call'.arg = value
            /\ value # _identifier[c]
            /\ ParentIdentifiers(c) # None
            /\ value \in glyphIdentifiers[ParentIdentifiers(c)] )
          => ( /\ raised' = "AssertionError"
               /\ _identifier' = _identifier
               /\ glyphIdentifiers' = glyphIdentifiers
               /\ _dirty' = _dirty
               /\ UNCHANGED <<parent, _baseGlyph, _transformation>>
               /\ posted' = <<>> )]_vars

\* A duplicate was just refused for a component whose dirty flag is clear.
C2_Witness ==
    /\ call.op = "setIdentifier"
    /\ raised = "AssertionError"
    /\ call.arg \in _get_identifiers(call.c)
    /\ call.arg # _identifier[call.c]
    /\ ~_dirty[call.c]

\* C3. Setting transformation, baseGlyph or identifier to the value it has
\* posts nothing, leaves the dirty flags as they are and leaves the identifier
\* sets unchanged.
C3_NoOpStability ==
    [][\A c \in Comps :
          ( /\ call'.c = c
            /\ \/ call'.op = "setTransformation" /\ call'.arg = _transformation[c]
               \/ call'.op = "setBaseGlyph" /\ call'.arg = _baseGlyph[c]
               \/ call'.op = "setIdentifier" /\ call'.arg = _identifier[c] )
          => ( /\ posted' = <<>>
               /\ raised' = None
               /\ _dirty' = _dirty
               /\ glyphIdentifiers' = glyphIdentifiers )]_vars

\* The identifier a registered, clean component holds was just assigned again.
C3_Witness ==
    /\ call.op = "setIdentifier"
    /\ call.arg # None
    /\ call.arg = _identifier[call.c]
    /\ call.arg \in _get_identifiers(call.c)
    /\ raised = None
    /\ posted = <<>>
    /\ ~_dirty[call.c]

\* The two most recent calls assigned identifiers a and then b, different and
\* both free in the glyph's set beforehand, to component c of glyph g.
TwoAssignments(c, g, a, b) ==
    /\ hist.on
    /\ hist.call = [op |-> "setIdentifier", c |-> c, arg |-> a]
    /\ call = [op |-> "setIdentifier", c |-> c, arg |-> b]
    /\ parent[c] = g
    /\ a # b
    /\ a \notin hist.before.sets[g]
    /\ b \notin hist.before.sets[g]

\* C4 as stated: after assigning A and then B to a component of a glyph, the
\* glyph's set is what it was before the two assignments plus B.
C4_Original ==
    \A c \in Comps, g \in {"g1", "g2"}, a \in Ids, b \in Ids :
        TwoAssignments(c, g, a, b)
            => /\ glyphIdentifiers[g] = hist.before.sets[g] \cup {b}
               /\ a \notin glyphIdentifiers[g]
               /\ _identifier[c] = b

\* C4, amended: after assigning A and then B (both free) to a component of a
\* glyph, the glyph's set is what it was before the two assignments, without
\* the identifier the component held then, plus B; A is not in the set and
\* the component's identifier is B.
C4_ScopeTransfer ==
    \A c \in Comps, g \in {"g1", "g2"}, a \in Ids, b \in Ids :
        TwoAssignments(c, g, a, b)
            => /\ glyphIdentifiers[g] = (hist.before.sets[g] \ {hist.before.held[c]}) \cup {b}
               /\ a \notin glyphIdentifiers[g]
               /\ _identifier[c] = b

\* A registered component was given two further identifiers in a row.
C4_Witness ==
    \E c \in Comps, a \in Ids, b \in Ids :
        /\ TwoAssignments(c, "g1", a, b)
        /\ hist.before.held[c] \in hist.before.sets["g1"]
        /\ hist.raised = None
        /\ raised = None

\* C5. When a component of a glyph that holds identifier A is assigned None,
\* A leaves the glyph's set and the component's identifier is None; assigning
\* A to another component of the same glyph right afterwards succeeds.
C5_Clearing ==
    \A c \in Comps, g \in {"g1", "g2"}, a \in Ids :
        /\ ( /\ hist.on
             /\ call = [op |-> "setIdentifier", c |-> c, arg |-> None]
             /\ parent[c] = g
             /\ hist.was.held[c] = a )
           => ( /\ raised = None
                /\ a \notin glyphIdentifiers[g]
                /\ _identifier[c] = None )
        /\ \A d \in Comps \ {c} :
             ( /\ hist.on
               /\ hist.call = [op |-> "setIdentifier", c |-> c, arg |-> None]
               /\ hist.before.held[c] = a
               /\ call = [op |-> "setIdentifier", c |-> d, arg |-> a]
               /\ parent[c] = g
               /\ parent[d] = g )
             => ( /\ raised = None
                  /\ _identifier[d] = a )

\* An identifier was cleared on one component and then claimed by the other.
C5_Witness ==
    \E c \in Comps, d \in Comps, a \in Ids :
        /\ c # d
        /\ hist.on
        /\ hist.call = [op |-> "setIdentifier", c |-> c, arg |-> None]
        /\ hist.before.held[c] = a
        /\ a \in hist.before.sets["g1"]
        /\ call = [op |-> "setIdentifier", c |-> d, arg |-> a]
        /\ parent[c] = "g1" /\ parent[d] = "g1"
        /\ posted # <<>>
        /\ _identifier[d] = a

\* how many notifications of a channel a call posted
Count(log, name) == Cardinality({i \in DOMAIN log : log[i].name = name})

\* A call of move((dx, dy)) on component c, whose transformation is
\* (1, 0, 0, 1, x, y), is being made.
MovesFrom(c, x, y, dx, dy) ==
    /\ call'.op = "move" /\ call'.c = c /\ call'.arg = <<dx, dy>>
    /\ _transformation[c] = <<1, 0, 0, 1, x, y>>

\* C6 as stated: for every x, y, dx, dy, move((dx, dy)) on a component with
\* transformation (1, 0, 0, 1, x, y) gives (1, 0, 0, 1, x + dx, y + dy) and
\* posts one TransformationChanged and one Changed notification.
C6_Original ==
    [][\A c \in Comps :
          call'.op = "move" =>
            LET x == _transformation[c][5]   y == _transformation[c][6]
                dx == call'.arg[1]           dy == call'.arg[2]
            IN  MovesFrom(c, x, y, dx, dy)
                => ( /\ _transformation'[c] = <<1, 0, 0, 1, x + dx, y + dy>>
                     /\ Count(posted', "Component.TransformationChanged") = 1
                     /\ Count(posted', "Component.Changed") = 1 )]_vars

\* C6, amended: move((dx, dy)) on a component with transformation
\* (1, 0, 0, 1, x, y) gives (1, 0, 0, 1, x + dx, y + dy); unless dx and dy are
\* both 0 it posts one TransformationChanged and one Changed notification and
\* nothing else, and when they are both 0 it posts nothing.
C6_MoveComposition ==
    [][\A c \in Comps :
          call'.op = "move" =>
            LET x == _transformation[c][5]   y == _transformation[c][6]
                dx == call'.arg[1]           dy == call'.arg[2]
            IN  MovesFrom(c, x, y, dx, dy)
                => ( /\ _transformation'[c] = <<1, 0, 0, 1, x + dx, y + dy>>
                     /\ raised' = None
                     /\ IF <<dx, dy>> = <<0, 0>>
                        THEN posted' = <<>>
                        ELSE /\ Len(posted') = 2
                             /\ Count(posted', "Component.TransformationChanged") = 1
                             /\ Count(posted', "Component.Changed") = 1 )]_vars

\* A component was just moved diagonally from (1, 0, 0, 1, 0, 0).
C6_Witness ==
    /\ call.op = "move"
    /\ call.arg = <<1, 1>>
    /\ _transformation[call.c] = <<1, 0, 0, 1, 1, 1>>
    /\ Len(posted) = 2
    /\ posted[1].name = "Component.TransformationChanged"
    /\ posted[1].oldValue = <<1, 0, 0, 1, 0, 0>>

GeometryQueries == {"bounds", "controlPointBounds", "pointInside"}

\* what a geometry query answers when it finds no context to draw in
Absent(op) == IF op = "pointInside" THEN "False" ELSE None

\* C7. For a component whose glyph has no font, bounds and controlPointBounds
\* return None and pointInside returns False, without a pen being driven and
\* without an exception.
C7_MissingFont ==
    ( /\ call.op \in GeometryQueries
      /\ parent[call.c] # None
      /\ GlyphFont[parent[call.c]] = None )
    => ( /\ raised = None
         /\ result = Absent(call.op)
         /\ penCalls = <<>>
         /\ warnings = 0 )

\* C8. For a component without a parent, bounds and controlPointBounds return
\* None and pointInside returns False, without an exception and without a pen
\* being driven, whatever its baseGlyph, transformation and identifier.
C8_DetachedSafety ==
    ( /\ call.op \in GeometryQueries
      /\ parent[call.c] = None )
    => ( /\ raised = None
         /\ result = Absent(call.op)
         /\ penCalls = <<>>
         /\ warnings = 0 )

\* The bounds of a detached component with a base glyph, an identifier and a
\* transformation of its own were just asked for.
C8_Witness ==
    /\ call.op = "bounds"
    /\ parent[call.c] = None
    /\ _baseGlyph[call.c] # None
    /\ _identifier[call.c] # None
    /\ _transformation[call.c] # <<1, 0, 0, 1, 0, 0>>
    /\ result = None

\* C9. generateIdentifier completes and leaves the component with an
\* identifier that was not in the set before the call and, where the glyph has
\* a set, is in it afterwards while the identifier held before is not; an
\* IdentifierChanged notification is posted.
C9_GenerateIdentifier ==
    [][\A c \in Comps :
          (call'.op = "generateIdentifier" /\ call'.c = c)
          => ( /\ raised' = None
               /\ _identifier'[c] \in Ids
               /\ _identifier'[c] \notin _get_identifiers(c)
               /\ ParentIdentifiers(c) # None =>
                     /\ _identifier'[c] \in glyphIdentifiers'[ParentIdentifiers(c)]
                     /\ _identifier[c] \notin glyphIdentifiers'[ParentIdentifiers(c)]
               /\ Count(posted', "Component.IdentifierChanged") = 1 )]_vars

\* C10. drawPoints with a pen that does not take the identifier: the pen
\* receives addComponent(baseGlyph, transformation), one warning is emitted and
\* nothing is raised.  With a pen that takes it: the pen receives one
\* addComponent(baseGlyph, transformation, identifier) and there is no warning.
C10_Degradation ==
    call.op = "drawPoints" =>
        /\ call.arg = "legacy" =>
              /\ penCalls = <<[baseGlyph |-> _baseGlyph[call.c],
                               transformation |-> _transformation[call.c],
                               identifier |-> Omitted]>>
              /\ warnings = 1
              /\ raised = None
        /\ call.arg = "identifier" =>
              /\ penCalls = <<[baseGlyph |-> _baseGlyph[call.c],
                               transformation |-> _transformation[call.c],
                               identifier |-> _identifier[call.c]]>>
              /\ warnings = 0
              /\ raised = None

\* A component with an identifier was just drawn with a pen that does not
\* take identifiers.
C10_Witness ==
    /\ call.op = "drawPoints"
    /\ call.arg = "legacy"
    /\ _identifier[call.c] # None
    /\ _baseGlyph[call.c] # None
    /\ Len(penCalls) = 1
    /\ warnings = 1
    /\ raised = None

\* the channel of each setter
Channel(op) ==
    CASE op = "setBaseGlyph" -> "Component.BaseGlyphChanged"
      [] op = "setTransformation" -> "Component.TransformationChanged"
      [] op = "setIdentifier" -> "Component.IdentifierChanged"

\* the attribute a setter assigns, as it is now
Attribute(op, c) ==
    CASE op = "setBaseGlyph" -> _baseGlyph[c]
      [] op = "setTransformation" -> _transformation[c]
      [] op = "setIdentifier" -> _identifier[c]

\* C11. A call that sets baseGlyph, transformation or identifier to a value
\* other than the current one (and, for the identifier, not in the set the
\* component resolves) posts one notification of its own channel with the
\* value before the call as oldValue and the assigned value as newValue, then
\* one Component.Changed, nothing else, and the component is dirty afterwards.
C11_ChangeNotifies ==
    [][\A c \in Comps :
          ( /\ call'.c = c
            /\ call'.op \in {"setBaseGlyph", "setTransformation", "setIdentifier"}
            /\ call'.arg # Attribute(call'.op, c)
            /\ call'.op = "setIdentifier" => call'.arg \notin _get_identifiers(c) )
          => ( /\ raised' = None
               /\ Len(posted') = 2
               /\ posted'[1].name = Channel(call'.op)
               /\ posted'[1].oldValue = Attribute(call'.op, c)
               /\ posted'[1].newValue = call'.arg
               /\ posted'[2].name = "Component.Changed"
               /\ _dirty'[c] )]_vars

\* The base glyph of a component was just changed from "a" back to None: both
\* notifications were posted and the component is dirty.
C11_Witness ==
    /\ call.op = "setBaseGlyph"
    /\ call.arg = None
    /\ Len(posted) = 2
    /\ posted[1].name = "Component.BaseGlyphChanged"
    /\ posted[1].oldValue = "a"
    /\ posted[1].newValue = None
    /\ _dirty[call.c]

\* Components placed before any identifier is assigned: each one is either
\* appended to one of the glyphs or left detached, and from then on only
\* identifiers are assigned.
InitPlaced ==
    /\ parent \in [Comps -> Glyphs \cup {None}]
    /\ glyphIdentifiers = [g \in Glyphs |-> {}]
    /\ _baseGlyph = [c \in Comps |-> None]
    /\ _transformation = [c \in Comps |-> <<1, 0, 0, 1, 0, 0>>]
    /\ _identifier = [c \in Comps |-> None]
    /\ _dirty = [c \in Comps |-> FALSE]
    /\ call = NoCall
    /\ raised = None
    /\ result = None
    /\ posted = <<>>
    /\ penCalls = <<>>
    /\ warnings = 0
    /\ hist = NoHistory

NextPlaced ==
    \/ \E c \in Comps, value \in Ids \cup {None} : _set_identifier(c, value)

SpecPlaced == InitPlaced /\ [][NextPlaced]_vars

C13_ReadOnlyGeometry ==
    [][call'.op \in GeometryQueries \cup {"draw", "drawPoints"}
       => (UNCHANGED state /\ posted' = <<>>)]_vars

\* A clean component that holds an identifier was just drawn into a pen, by
\* draw while detached or by bounds while in a glyph, and is still clean.
C13_Witness ==
    /\ call.op \in {"draw", "bounds"}
    /\ penCalls # <<>>
    /\ _identifier[call.c] = "A"
    /\ _baseGlyph[call.c] = "a"
    /\ ~_dirty[call.c]
    /\ (call.op = "draw") = (parent[call.c] = None)

\* the notifications of one attribute
SpecificNames ==
    {"Component.BaseGlyphChanged", "Component.TransformationChanged",
     "Component.IdentifierChanged"}

\* C14. What an observer reads when BaseGlyphChanged, TransformationChanged or
\* IdentifierChanged is delivered: the attribute is already the newValue of
\* the payload; for IdentifierChanged of a component in a glyph with an
\* identifier set, that set no longer holds the old identifier and holds the
\* new one (when there is one).  The attribute has that value after the call,
\* and a call that raises has posted nothing.
C14_ConsistentAtDelivery ==
    /\ raised # None => posted = <<>>
    /\ \A i \in 1..Len(posted) :
           posted[i].name \in SpecificNames
           => /\ posted[i].seen.value = posted[i].newValue
              /\ posted[i].name = "Component.BaseGlyphChanged"
                 => _baseGlyph[call.c] = posted[i].newValue
              /\ posted[i].name = "Component.TransformationChanged"
                 => _transformation[call.c] = posted[i].newValue
              /\ posted[i].name = "Component.IdentifierChanged"
                 => /\ _identifier[call.c] = posted[i].newValue
                    /\ ParentIdentifiers(call.c) # None
                       => /\ posted[i].oldValue \notin posted[i].seen.identifiers
                          /\ posted[i].newValue # None
                             => posted[i].newValue \in posted[i].seen.identifiers

\* The identifier of a component in a glyph was just changed from A to B: the
\* observer of IdentifierChanged saw B on the component and a set with B and
\* without A.
C14_Witness ==
    /\ call.op = "setIdentifier"
    /\ parent[call.c] = "g1"
    /\ Len(posted) = 2
    /\ posted[1].name = "Component.IdentifierChanged"
    /\ posted[1].oldValue = "A"
    /\ posted[1].newValue = "B"
    /\ posted[1].seen.value = "B"
    /\ posted[1].seen.identifiers = {"B"}

\* the transformation (a, b, c, d, e + dx, f + dy)
Translated(t, dx, dy) == <<t[1], t[2], t[3], t[4], t[5] + dx, t[6] + dy>>

\* C15. move((dx, dy)) on a component with transformation (a, b, c, d, e, f)
\* does to the transformation, the dirty flag and the notifications what
\* assigning (a, b, c, d, e + dx, f + dy) to the transformation does; a, b, c
\* and d stay, and so do baseGlyph, identifier, parent and every glyph's
\* identifier set.
C15_MoveIsSetTransformation ==
    [][\A c \in Comps :
          (call'.op = "move" /\ call'.c = c)
          => LET t == _transformation[c]
                 target == Translated(t, call'.arg[1], call'.arg[2])
             IN  /\ SetTransformationEffect(c, target)
                 /\ _transformation'[c] = target
                 /\ \A i \in 1..4 : _transformation'[c][i] = t[i]
                 /\ UNCHANGED <<parent, glyphIdentifiers, _baseGlyph, _identifier>>]_vars

\* A clean component with a transformation that is not a plain offset was
\* just moved by (1, 1): TransformationChanged and Changed were posted.
C15_Witness ==
    /\ call.op = "move"
    /\ call.arg = <<1, 1>>
    /\ _transformation[call.c] = <<2, 1, -1, 3, 1, 1>>
    /\ Len(posted) = 2
    /\ posted[1].name = "Component.TransformationChanged"
    /\ posted[1].oldValue = <<2, 1, -1, 3, 0, 0>>
    /\ ~posted[1].seen.dirty
    /\ _dirty[call.c]

\* C16. A call that sets the identifier of a component whose parent is now
\* glyph g (with an identifier set) fails exactly when the value differs from
\* the component's identifier and is in g's set, whatever the other glyphs'
\* sets hold; when it succeeds, g's set loses the old identifier and gains the
\* new one; the set of every other glyph, the one the component was in before
\* included, stays as it was.
C16_ReparentedScope ==
    [][\A c \in Comps :
          (call'.op = "setIdentifier" /\ call'.c = c /\ ParentIdentifiers(c) # None)
          => LET g == parent[c]
                 old == _identifier[c]
                 value == call'.arg
             IN  /\ (raised' = "AssertionError")
                    = (value # old /\ value \in glyphIdentifiers[g])
                 /\ raised' \in {None, "AssertionError"}
                 /\ \A h \in Glyphs \ {g} : glyphIdentifiers'[h] = glyphIdentifiers[h]
                 /\ raised' = None /\ value # old
                    => glyphIdentifiers'[g]
                         = (glyphIdentifiers[g] \ {old}) \cup ({value} \ {None})
                 /\ raised' # None \/ value = old
                    => glyphIdentifiers'[g] = glyphIdentifiers[g]]_vars

\* A component that registered A in g1 and was then appended to g2 has just
\* been given B there: g1 still holds A, g2 holds B only, and the B that the
\* other component registered in g1 did not stand in the way.
C16_Witness ==
    /\ call.op = "setIdentifier"
    /\ call.c = "c1"
    /\ call.arg = "B"
    /\ raised = None
    /\ posted # <<>>
    /\ posted[1].oldValue = "A"
    /\ parent["c1"] = "g2"
    /\ glyphIdentifiers["g2"] = {"B"}
    /\ parent["c2"] = "g1"
    /\ _identifier["c2"] = "B"
    /\ glyphIdentifiers["g1"] = {"A", "B"}

\* a call that has just changed the identifier of component c
ChangesIdentifier(c) ==
    /\ call'.op = "setIdentifier"
    /\ call'.c = c
    /\ raised' = None
    /\ call'.arg # _identifier[c]

SetsUnscoped(c) ==
    /\ call'.op = "setIdentifier"
    /\ call'.c = c
    /\ ParentIdentifiers(c) = None

\* C18 as stated: for a component without a resolvable identifier set the
\* accessor yields the empty set, and setting its identifier to any value
\* never raises, changes no glyph's set, stores the value, posts
\* IdentifierChanged and leaves the component dirty.
C18_Original ==
    [][\A c \in Comps :
          SetsUnscoped(c)
          => /\ _get_identifiers(c) = {}
             /\ raised' = None
             /\ glyphIdentifiers' = glyphIdentifiers
             /\ _identifier'[c] = call'.arg
             /\ Len(posted') > 0
             /\ posted'[1].name = "Component.IdentifierChanged"
             /\ _dirty'[c]]_vars

\* C18. For a component without a resolvable identifier set the accessor
\* yields the empty set, and setting its identifier never raises, whatever the
\* other components hold, and changes no glyph's set; a value other than the
\* one it holds is stored, IdentifierChanged is posted with the old and the new
\* value and the component is dirty; the value it holds already changes
\* nothing and posts nothing.
C18_UnscopedAssignment ==
    [][\A c \in Comps :
          SetsUnscoped(c)
          => /\ _get_identifiers(c) = {}
             /\ raised' = None
             /\ glyphIdentifiers' = glyphIdentifiers
             /\ _identifier'[c] = call'.arg
             /\ call'.arg # _identifier[c]
                => /\ Len(posted') = 2
                   /\ posted'[1].name = "Component.IdentifierChanged"
                   /\ posted'[1].oldValue = _identifier[c]
                   /\ posted'[1].newValue = call'.arg
                   /\ _dirty'[c]
             /\ call'.arg = _identifier[c]
                => (posted' = <<>> /\ UNCHANGED state)]_vars

\* The detached component c2 has just been given A, which c1 holds and has
\* registered in g1.
C18_Witness ==
    /\ call.op = "setIdentifier"
    /\ call.c = "c2"
    /\ call.arg = "A"
    /\ parent["c2"] = None
    /\ _identifier["c2"] = "A"
    /\ parent["c1"] = "g1"
    /\ _identifier["c1"] = "A"
    /\ glyphIdentifiers["g1"] = {"A"}
    /\ raised = None
    /\ Len(posted) = 2
    /\ _dirty["c2"]
====
